---- MODULE Spec2Model ----
(***************************************************************************)
(* The ShoppingList view (src/src/components/ShoppingList.js) as a state   *)
(* machine: the view's React state, the remote tables it reads and writes, *)
(* the remote calls in flight with the closure each one captured, and the  *)
(* real-time channels with their pending notifications.                    *)
(*                                                                         *)
(* Text is a sequence of one-character strings, so that trim() and         *)
(* toLowerCase() are computed and not assumed.                             *)
(***************************************************************************)
EXTENDS Integers, Sequences, FiniteSets, TLC

----------------------------------------------------------------------------
(* Bounds of the model *)

\* remote calls (with their continuations) in flight at once
MaxTasks == 3
\* remote calls the user starts, changes of owner and changes made by other
\* devices, in one behaviour
MaxOps == 2
\* local gestures (typing, opening a form, collapsing, switching mode) in one
\* behaviour
MaxInputs == 2
\* remote calls that fail in one behaviour
MaxErrors == 1
\* items of a drawn local collection (ViewSpec)
MaxViewItems == 3
\* rows of a drawn stored category collection (ViewSpec)
MaxStoredCats == 2
----------------------------------------------------------------------------
(* Text *)

UpperAlphabet ==
    << "A","B","C","D","E","F","G","H","I","J","K","L","M",
       "N","O","P","Q","R","S","T","U","V","W","X","Y","Z" >>

LowerAlphabet ==
    << "a","b","c","d","e","f","g","h","i","j","k","l","m",
       "n","o","p","q","r","s","t","u","v","w","x","y","z" >>

\* upper-case letter -> lower-case letter
LowerCaseOf ==
    [c \in {UpperAlphabet[i] : i \in 1..26} |->
        LowerAlphabet[CHOOSE i \in 1..26 : UpperAlphabet[i] = c]]

\* lower-case letter -> its place in the alphabet
RankOf ==
    [c \in {LowerAlphabet[i] : i \in 1..26} |->
        CHOOSE i \in 1..26 : LowerAlphabet[i] = c]

\* String.prototype.toLowerCase, one character
LowerChar(c) == IF c \in DOMAIN LowerCaseOf THEN LowerCaseOf[c] ELSE c

\* String.prototype.toLowerCase
toLowerCase(s) == [i \in 1..Len(s) |-> LowerChar(s[i])]

\* collation rank of a lower-case character: letters in alphabetical order,
\* anything else (the space) before them
CharRank(c) == IF c \in DOMAIN RankOf THEN RankOf[c] ELSE 0

\* String.prototype.localeCompare on lower-case text: -1, 0 or 1
RECURSIVE localeCompare(_, _)
localeCompare(a, b) ==
    IF a = << >> /\ b = << >> THEN 0
    ELSE IF a = << >> THEN -1
    ELSE IF b = << >> THEN 1
    ELSE IF CharRank(Head(a)) < CharRank(Head(b)) THEN -1
    ELSE IF CharRank(Head(a)) > CharRank(Head(b)) THEN 1
    ELSE localeCompare(Tail(a), Tail(b))

IsSpace(c) == c = " "

RECURSIVE TrimStart(_)
TrimStart(s) ==
    IF s # << >> /\ IsSpace(Head(s)) THEN TrimStart(Tail(s)) ELSE s

RECURSIVE TrimEnd(_)
TrimEnd(s) ==
    IF s # << >> /\ IsSpace(s[Len(s)])
    THEN TrimEnd(SubSeq(s, 1, Len(s) - 1))
    ELSE s

\* String.prototype.trim
trim(s) == TrimEnd(TrimStart(s))

EmptyText == << >>

----------------------------------------------------------------------------
(* Names used by the model *)

Bread == << "B","r","e","a","d" >>
Dairy == << "D","a","i","r","y" >>
Snacks == << "S","n","a","c","k","s" >>
Milk == << "M","i","l","k" >>
milk == << "m","i","l","k" >>
apple == << "a","p","p","l","e" >>

defaultCategories ==
    << << "R","e","f","r","i","g","e","r","a","t","e","d"," ","i","t","e","m","s" >>,
       Bread,
       << "F","r","u","i","t","/","V","e","g","g","i","e" >>,
       << "F","r","o","z","e","n" >>,
       << "B","u","l","k" >>,
       << "H","o","u","s","e","h","o","l","d"," ","i","t","e","m","s" >> >>

Range(s) == {s[i] : i \in 1..Len(s)}

\* Array.prototype.includes
includes(s, x) == x \in Range(s)

Users == {"A", "B"}
NoUser == "none"

ItemsTable == "shopping_items"
CategoriesTable == "categories"

----------------------------------------------------------------------------
(* State *)

VARIABLES
    \* the remote service: the two tables, rows in created_at order, and the
    \* next item id it hands out
    dbItems, dbCategories, nextId,
    \* the session prop (its user id) and how many times it has changed
    session, epoch,
    \* the view's React state
    items, categories, newItemInputs, collapsedCategories, storeMode,
    showAddCategory, newCategoryName, loading,
    \* remote calls in flight, each with what its closure captured
    tasks,
    \* live real-time channels with their pending notifications
    channels,
    \* the collections a successful mutation of the current session wrote
    mutated,
    \* operations, local gestures and failed remote calls so far
    ops, inputs, errors

\* what the view renders from
viewVars == << items, categories, newItemInputs, collapsedCategories, storeMode,
               showAddCategory, newCategoryName, loading >>

vars == << dbItems, dbCategories, nextId, session, epoch, items, categories,
           newItemInputs, collapsedCategories, storeMode, showAddCategory,
           newCategoryName, loading, tasks, channels, mutated, ops, inputs, errors >>

\* one more operation within the bound
Operation == ops < MaxOps /\ ops' = ops + 1 /\ UNCHANGED << inputs, errors >>

\* one more local gesture within the bound
Gesture == inputs < MaxInputs /\ inputs' = inputs + 1 /\ UNCHANGED << ops, errors >>

\* a row of shopping_items
Item(id, name, category, needed, bought, user) ==
    [id |-> id, name |-> name, category |-> category, needed |-> needed,
     bought |-> bought, user_id |-> user]

\* a row of categories
CategoryRow(name, user) == [name |-> name, user_id |-> user]

\* every category name the model uses
AllCategories == Range(defaultCategories) \cup {Dairy, Snacks}

----------------------------------------------------------------------------
(* Derived view computations *)

\* the comparator of getItemsByCategory's sort
CompareItems(a, b) == localeCompare(toLowerCase(a.name), toLowerCase(b.name))

\* x put behind every element that does not sort after it
RECURSIVE InsertSorted(_, _)
InsertSorted(x, s) ==
    IF s = << >> THEN << x >>
    ELSE IF CompareItems(s[Len(s)], x) <= 0 THEN Append(s, x)
    ELSE Append(InsertSorted(x, SubSeq(s, 1, Len(s) - 1)), s[Len(s)])

\* Array.prototype.sort with CompareItems: a stable sort
RECURSIVE SortItems(_)
SortItems(s) ==
    IF s = << >> THEN << >>
    ELSE InsertSorted(s[Len(s)], SortItems(SubSeq(s, 1, Len(s) - 1)))

\* the older variant of the component (src/unnamed/part_000): no sort
ItemsForCategoryUnsorted(its, mode, category) ==
    IF mode
    THEN SelectSeq(its, LAMBDA item : item.category = category /\ item.needed)
    ELSE SelectSeq(its, LAMBDA item : item.category = category)

\* store mode filtering on bought instead of needed
ItemsForCategoryByBought(its, mode, category) ==
    IF mode
    THEN SortItems(SelectSeq(its, LAMBDA item : item.category = category /\ item.bought))
    ELSE SortItems(SelectSeq(its, LAMBDA item : item.category = category))

\* getItemsByCategory as a function of the items and the mode it reads
ItemsForCategory(its, mode, category) ==
    IF mode
    THEN SortItems(SelectSeq(its, LAMBDA item : item.category = category /\ item.needed))
    ELSE SortItems(SelectSeq(its, LAMBDA item : item.category = category))

getItemsByCategory(category) == ItemsForCategory(items, storeMode, category)

\* stats that count the bought items in both modes
getCategoryStatsOfBought(category) ==
    LET categoryItems == getItemsByCategory(category) IN
    [completed |-> Len(SelectSeq(categoryItems, LAMBDA item : item.bought)),
     total |-> Len(categoryItems)]

getCategoryStats(category) ==
    LET categoryItems == getItemsByCategory(category) IN
    IF storeMode
    THEN [completed |-> Len(SelectSeq(categoryItems, LAMBDA item : item.bought)),
          total |-> Len(categoryItems)]
    ELSE [completed |-> Len(SelectSeq(categoryItems, LAMBDA item : item.needed)),
          total |-> Len(categoryItems)]

\* counting every needed item, bought or not
NeededCountIgnoringBought(its) == Len(SelectSeq(its, LAMBDA item : item.needed))

NeededItemsCount(its) == Len(SelectSeq(its, LAMBDA item : item.needed /\ ~item.bought))

BoughtItemsCount(its) == Len(SelectSeq(its, LAMBDA item : item.needed /\ item.bought))

getNeededItemsCount == NeededItemsCount(items)

getBoughtItemsCount == BoughtItemsCount(items)

\* every category visible in both modes
visibleCategoriesAll == categories

visibleCategories ==
    SelectSeq(categories,
              LAMBDA category : Len(getItemsByCategory(category)) > 0 \/ ~storeMode)

\* a list of the stored names alone
ResolveStoredOnly(rows) == [i \in 1..Len(rows) |-> rows[i].name]

\* the list fetchCategories sets from the rows it fetched
ResolveCategories(rows) ==
    LET userCategories == [i \in 1..Len(rows) |-> rows[i].name] IN
    defaultCategories
        \o SelectSeq(userCategories, LAMBDA cat : ~includes(defaultCategories, cat))

----------------------------------------------------------------------------
(* Local operations of the view: no remote call *)

\* the view renders its list and buttons: it holds an owner identity and is
\* not on the loading screen
Rendered == session # NoUser /\ ~loading

\* a mode switch that also empties the pending inputs
SwitchModeClearingInputs ==
    /\ Rendered
    /\ storeMode' = ~storeMode
    /\ newItemInputs' = [category \in DOMAIN newItemInputs |-> EmptyText]
    /\ Gesture
    /\ UNCHANGED << dbItems, dbCategories, nextId, session, epoch, items,
                    categories, collapsedCategories, showAddCategory,
                    newCategoryName, loading, tasks, channels, mutated >>

\* the mode toggle button: setStoreMode(!storeMode)
SwitchMode ==
    /\ Rendered
    /\ storeMode' = ~storeMode
    /\ Gesture
    /\ UNCHANGED << dbItems, dbCategories, nextId, session, epoch, items,
                    categories, newItemInputs, collapsedCategories,
                    showAddCategory, newCategoryName, loading, tasks, channels,
                    mutated >>

\* a category header is clicked
toggleCategory(category) ==
    /\ Rendered
    /\ includes(visibleCategories, category)
    /\ collapsedCategories' =
           IF category \in collapsedCategories
           THEN collapsedCategories \ {category}
           ELSE collapsedCategories \cup {category}
    /\ Gesture
    /\ UNCHANGED << dbItems, dbCategories, nextId, session, epoch, items,
                    categories, newItemInputs, storeMode, showAddCategory,
                    newCategoryName, loading, tasks, channels, mutated >>

\* the add-category button of plan mode: setShowAddCategory(true)
OpenAddCategory ==
    /\ Rendered
    /\ ~storeMode
    /\ ~showAddCategory
    /\ showAddCategory' = TRUE
    /\ Gesture
    /\ UNCHANGED << dbItems, dbCategories, nextId, session, epoch, items,
                    categories, newItemInputs, collapsedCategories, storeMode,
                    newCategoryName, loading, tasks, channels, mutated >>

\* the add-category form is rendered
AddCategoryFormShown == Rendered /\ showAddCategory /\ ~storeMode

\* texts typed into the add-category input
CategoryTexts == { << " " >>, << " " >> \o Dairy, Snacks \o << " " >> }

\* the add-category input changes: setNewCategoryName(e.target.value)
TypeCategoryName(value) ==
    /\ AddCategoryFormShown
    /\ newCategoryName # value
    /\ newCategoryName' = value
    /\ Gesture
    /\ UNCHANGED << dbItems, dbCategories, nextId, session, epoch, items,
                    categories, newItemInputs, collapsedCategories, storeMode,
                    showAddCategory, loading, tasks, channels, mutated >>

\* the cancel button of the add-category form
CancelAddCategory ==
    /\ AddCategoryFormShown
    /\ showAddCategory' = FALSE
    /\ newCategoryName' = EmptyText
    /\ Gesture
    /\ UNCHANGED << dbItems, dbCategories, nextId, session, epoch, items,
                    categories, newItemInputs, collapsedCategories, storeMode,
                    loading, tasks, channels, mutated >>

\* the body of a category is rendered: the category is visible and expanded
CategoryOpen(category) ==
    /\ Rendered
    /\ includes(visibleCategories, category)
    /\ category \notin collapsedCategories

\* the add-item form of a category is rendered
AddItemFormShown(category) == CategoryOpen(category) /\ ~storeMode

\* what is typed into the add-item inputs: << category, text >>
TypedInputs == { << Bread, << " " >> \o milk \o << " " >> >>, << Dairy, << " " >> >> }

\* the categories whose add-item form is used, and those collapsed and expanded
TypedCategories == {Bread, Dairy}
ToggledCategories == {Dairy}

updateNewItemInput(category, value) ==
    /\ AddItemFormShown(category)
    /\ newItemInputs[category] # value
    /\ newItemInputs' = [newItemInputs EXCEPT ![category] = value]
    /\ Gesture
    /\ UNCHANGED << dbItems, dbCategories, nextId, session, epoch, items,
                    categories, collapsedCategories, storeMode, showAddCategory,
                    newCategoryName, loading, tasks, channels, mutated >>

\* the ids of the items rendered with their buttons
ShownItemIds ==
    UNION { { getItemsByCategory(c)[j].id : j \in 1..Len(getItemsByCategory(c)) } :
            c \in { c \in Range(categories) : CategoryOpen(c) } }

----------------------------------------------------------------------------
(* Remote calls in flight *)

FetchKinds == {"fetchItems", "fetchCategories"}
MutationKinds == {"addCategory", "addItem", "toggleNeeded", "toggleBought",
                  "deleteItem", "resetShopping"}

NoInputs == [c \in AllCategories |-> EmptyText]

\* a remote call just issued by a closure of owner uid: phase "req" until the
\* service has processed it, then "resp" until its continuation has run
Call(kind, uid) ==
    [kind |-> kind, phase |-> "req", ok |-> TRUE, uid |-> uid, id |-> 0,
     name |-> EmptyText, category |-> EmptyText, val |-> FALSE, data |-> << >>,
     init |-> 0, inputs |-> NoInputs]

\* the table a kind of call reads or writes
TableOf(kind) ==
    IF kind \in {"fetchCategories", "addCategory"} THEN CategoriesTable ELSE ItemsTable

\* the fetch a successful mutation awaits next
RefetchOf(t) ==
    Call(IF t.kind = "addCategory" THEN "fetchCategories" ELSE "fetchItems", t.uid)

RemoveAt(s, i) == SubSeq(s, 1, i - 1) \o SubSeq(s, i + 1, Len(s))

\* Array.prototype.find by id
Finds(its, id) == \E i \in 1..Len(its) : its[i].id = id
find(its, id) == its[CHOOSE i \in 1..Len(its) : its[i].id = id /\ \A j \in 1..(i - 1) : its[j].id # id]

\* the two channels the subscription effect opens for an owner
ChannelsOf(user) ==
    << [table |-> ItemsTable, user_id |-> user, pending |-> 0],
       [table |-> CategoriesTable, user_id |-> user, pending |-> 0] >>

----------------------------------------------------------------------------
(* The session prop and the two effects that depend on it *)

\* an owner change whose cleanup leaves the previous channels subscribed
SetSessionKeepingChannels(user) ==
    /\ user # session
    /\ session = NoUser => epoch = 0
    /\ IF session = NoUser THEN UNCHANGED << ops, inputs, errors >> ELSE Operation
    /\ Len(tasks) + 2 <= MaxTasks
    /\ session' = user
    /\ epoch' = epoch + 1
    /\ loading' = TRUE
    /\ tasks' = tasks \o << [Call("fetchItems", user) EXCEPT !.init = epoch + 1],
                            [Call("fetchCategories", user) EXCEPT !.init = epoch + 1] >>
    /\ channels' = channels \o ChannelsOf(user)
    /\ mutated' = {}
    /\ UNCHANGED << dbItems, dbCategories, nextId, items, categories,
                    newItemInputs, collapsedCategories, storeMode,
                    showAddCategory, newCategoryName >>

\* the session prop changes to user: the subscription effect's cleanup
\* unsubscribes the previous channels, initializeData sets loading and
\* issues both fetches, and the subscription effect opens two channels
SetSession(user) ==
    /\ user # session
    /\ session = NoUser => epoch = 0
    /\ IF session = NoUser THEN UNCHANGED << ops, inputs, errors >> ELSE Operation
    /\ Len(tasks) + 2 <= MaxTasks
    /\ session' = user
    /\ epoch' = epoch + 1
    /\ loading' = TRUE
    /\ tasks' = tasks \o << [Call("fetchItems", user) EXCEPT !.init = epoch + 1],
                            [Call("fetchCategories", user) EXCEPT !.init = epoch + 1] >>
    /\ channels' = ChannelsOf(user)
    /\ mutated' = {}
    /\ UNCHANGED << dbItems, dbCategories, nextId, items, categories,
                    newItemInputs, collapsedCategories, storeMode,
                    showAddCategory, newCategoryName >>

\* the view is discarded: the subscription effect's cleanup unsubscribes the
\* two channels; the view renders nothing any more and is not used again,
\* while the calls it has in flight still settle
Discard ==
    /\ session # NoUser
    /\ session' = NoUser
    /\ channels' = << >>
    /\ mutated' = {}
    /\ Operation
    /\ UNCHANGED << dbItems, dbCategories, nextId, epoch, items, categories,
                    newItemInputs, collapsedCategories, storeMode,
                    showAddCategory, newCategoryName, loading, tasks >>

----------------------------------------------------------------------------
(* Mutating operations: the handler up to its first await *)

\* the handler's closure issues one remote call
Issue(t) ==
    /\ Len(tasks) < MaxTasks
    /\ tasks' = Append(tasks, t)
    /\ Operation
    /\ UNCHANGED << dbItems, dbCategories, nextId, session, epoch, items,
                    categories, newItemInputs, collapsedCategories, storeMode,
                    showAddCategory, newCategoryName, loading, channels, mutated >>

\* addCategory's validation that rejects only an empty name
AddCategoryRejectsOnlyEmpty == trim(newCategoryName) = EmptyText

\* addCategory's validation: the early return
AddCategoryRejects ==
    trim(newCategoryName) = EmptyText \/ includes(categories, trim(newCategoryName))

addCategory ==
    /\ AddCategoryFormShown
    /\ IF AddCategoryRejects
       THEN UNCHANGED vars
       ELSE Issue([Call("addCategory", session) EXCEPT !.name = trim(newCategoryName)])

\* a handler that inserts the pending name as typed
addItemUntrimmed(category) ==
    /\ AddItemFormShown(category)
    /\ LET inputValue == newItemInputs[category] IN
       IF trim(inputValue) = EmptyText
       THEN UNCHANGED vars
       ELSE Issue([Call("addItem", session) EXCEPT
                         !.name = inputValue,
                         !.category = category,
                         !.inputs = newItemInputs])

addItem(category) ==
    /\ AddItemFormShown(category)
    /\ LET inputValue == newItemInputs[category] IN
       IF trim(inputValue) = EmptyText
       THEN UNCHANGED vars
       ELSE Issue([Call("addItem", session) EXCEPT
                         !.name = trim(inputValue),
                         !.category = category,
                         !.inputs = newItemInputs])

\* a handler that marks the item needed whatever it was
toggleNeededSetting(id) ==
    /\ ~storeMode
    /\ id \in ShownItemIds
    /\ Issue([Call("toggleNeeded", session) EXCEPT !.id = id, !.val = TRUE])

\* a handler that negates the flag the remote row holds
toggleNeededOfRemote(id) ==
    /\ ~storeMode
    /\ id \in ShownItemIds
    /\ IF ~Finds(dbItems, id)
       THEN UNCHANGED vars
       ELSE Issue([Call("toggleNeeded", session) EXCEPT
                      !.id = id, !.val = ~find(dbItems, id).needed])

toggleNeeded(id) ==
    /\ ~storeMode
    /\ id \in ShownItemIds
    /\ IF ~Finds(items, id)
       THEN UNCHANGED vars
       ELSE Issue([Call("toggleNeeded", session) EXCEPT
                      !.id = id, !.val = ~find(items, id).needed])

\* a handler that marks the item not bought whatever it was
toggleBoughtClearing(id) ==
    /\ storeMode
    /\ id \in ShownItemIds
    /\ Issue([Call("toggleBought", session) EXCEPT !.id = id, !.val = FALSE])

toggleBought(id) ==
    /\ storeMode
    /\ id \in ShownItemIds
    /\ IF ~Finds(items, id)
       THEN UNCHANGED vars
       ELSE Issue([Call("toggleBought", session) EXCEPT
                      !.id = id, !.val = ~find(items, id).bought])

\* a delete button rendered in both modes
deleteItemAnyMode(id) ==
    /\ id \in ShownItemIds
    /\ Issue([Call("deleteItem", session) EXCEPT !.id = id])

deleteItem(id) ==
    /\ ~storeMode
    /\ id \in ShownItemIds
    /\ Issue([Call("deleteItem", session) EXCEPT !.id = id])

resetShopping ==
    /\ Rendered
    /\ storeMode
    /\ Issue(Call("resetShopping", session))

----------------------------------------------------------------------------
(* The remote service *)

\* filters without the owner's id
MatchesById(t, row) ==
    CASE t.kind \in {"toggleNeeded", "toggleBought", "deleteItem"} -> row.id = t.id
      [] t.kind = "resetShopping" -> TRUE
      [] OTHER -> FALSE

\* the rows a call's filters select
Matches(t, row) ==
    CASE t.kind \in {"toggleNeeded", "toggleBought", "deleteItem"} ->
             row.id = t.id /\ row.user_id = t.uid
      [] t.kind = "resetShopping" -> row.user_id = t.uid
      [] OTHER -> FALSE

\* a service on which an item that stops being needed stops being bought
ItemsAfterCoupled(t, rows) ==
    CASE t.kind = "addItem" ->
             Append(rows, Item(nextId, t.name, t.category, FALSE, FALSE, t.uid))
      [] t.kind = "toggleNeeded" ->
             [i \in 1..Len(rows) |->
                 IF Matches(t, rows[i])
                 THEN [rows[i] EXCEPT !.needed = t.val, !.bought = @ /\ t.val]
                 ELSE rows[i]]
      [] t.kind = "toggleBought" ->
             [i \in 1..Len(rows) |->
                 IF Matches(t, rows[i]) THEN [rows[i] EXCEPT !.bought = t.val]
                 ELSE rows[i]]
      [] t.kind = "deleteItem" -> SelectSeq(rows, LAMBDA row : ~Matches(t, row))
      [] t.kind = "resetShopping" ->
             [i \in 1..Len(rows) |->
                 IF Matches(t, rows[i])
                 THEN [rows[i] EXCEPT !.needed = FALSE, !.bought = FALSE]
                 ELSE rows[i]]
      [] OTHER -> rows

\* reset without the owner filter
ItemsAfterUnscoped(t, rows) ==
    CASE t.kind = "addItem" ->
             Append(rows, Item(nextId, t.name, t.category, FALSE, FALSE, t.uid))
      [] t.kind = "toggleNeeded" ->
             [i \in 1..Len(rows) |->
                 IF Matches(t, rows[i]) THEN [rows[i] EXCEPT !.needed = t.val]
                 ELSE rows[i]]
      [] t.kind = "toggleBought" ->
             [i \in 1..Len(rows) |->
                 IF Matches(t, rows[i]) THEN [rows[i] EXCEPT !.bought = t.val]
                 ELSE rows[i]]
      [] t.kind = "deleteItem" -> SelectSeq(rows, LAMBDA row : ~Matches(t, row))
      [] t.kind = "resetShopping" ->
             [i \in 1..Len(rows) |->
                 [rows[i] EXCEPT !.needed = FALSE, !.bought = FALSE]]
      [] OTHER -> rows

\* shopping_items after the service has applied call t
ItemsAfter(t, rows) ==
    CASE t.kind = "addItem" ->
             Append(rows, Item(nextId, t.name, t.category, FALSE, FALSE, t.uid))
      [] t.kind = "toggleNeeded" ->
             [i \in 1..Len(rows) |->
                 IF Matches(t, rows[i]) THEN [rows[i] EXCEPT !.needed = t.val]
                 ELSE rows[i]]
      [] t.kind = "toggleBought" ->
             [i \in 1..Len(rows) |->
                 IF Matches(t, rows[i]) THEN [rows[i] EXCEPT !.bought = t.val]
                 ELSE rows[i]]
      [] t.kind = "deleteItem" -> SelectSeq(rows, LAMBDA row : ~Matches(t, row))
      [] t.kind = "resetShopping" ->
             [i \in 1..Len(rows) |->
                 IF Matches(t, rows[i])
                 THEN [rows[i] EXCEPT !.needed = FALSE, !.bought = FALSE]
                 ELSE rows[i]]
      [] OTHER -> rows

\* categories after the service has applied call t
CategoriesAfter(t, rows) ==
    IF t.kind = "addCategory" THEN Append(rows, CategoryRow(t.name, t.uid)) ELSE rows

\* the rows a fetch of owner uid returns, in created_at order
OwnerRows(rows, uid) == SelectSeq(rows, LAMBDA row : row.user_id = uid)

\* whether a write changes a row of the table (and so is reported)
Reported(t) ==
    \/ t.kind \in {"addItem", "addCategory"}
    \/ \E i \in 1..Len(dbItems) : Matches(t, dbItems[i])

\* the channels after a change of table for owner uid has been reported
Notified(chs, table, uid) ==
    [k \in 1..Len(chs) |->
        IF chs[k].table = table /\ chs[k].user_id = uid
        THEN [chs[k] EXCEPT !.pending = @ + 1]
        ELSE chs[k]]

\* the service answers a fetch
ServeFetch(i) ==
    /\ tasks[i].phase = "req"
    /\ tasks[i].kind \in FetchKinds
    /\ tasks' = [tasks EXCEPT ![i].phase = "resp", ![i].ok = TRUE,
                              ![i].data =
                                  IF tasks[i].kind = "fetchItems"
                                  THEN OwnerRows(dbItems, tasks[i].uid)
                                  ELSE OwnerRows(dbCategories, tasks[i].uid)]
    /\ UNCHANGED << dbItems, dbCategories, nextId, session, epoch, items,
                    categories, newItemInputs, collapsedCategories, storeMode,
                    showAddCategory, newCategoryName, loading, channels, mutated, ops, inputs, errors >>

\* the service applies a write and reports the change on the owner's channels
ServeWrite(i) ==
    LET t == tasks[i] IN
    /\ t.phase = "req"
    /\ t.kind \in MutationKinds
    /\ dbItems' = ItemsAfter(t, dbItems)
    /\ dbCategories' = CategoriesAfter(t, dbCategories)
    /\ nextId' = IF t.kind = "addItem" THEN nextId + 1 ELSE nextId
    /\ channels' = IF Reported(t) THEN Notified(channels, TableOf(t.kind), t.uid)
                   ELSE channels
    /\ tasks' = [tasks EXCEPT ![i].phase = "resp", ![i].ok = TRUE]
    /\ mutated' = IF t.uid = session THEN mutated \cup {TableOf(t.kind)} ELSE mutated
    /\ UNCHANGED << session, epoch, items, categories, newItemInputs,
                    collapsedCategories, storeMode, showAddCategory,
                    newCategoryName, loading, ops, inputs, errors >>

\* a remote call fails (network, auth, query): nothing is read or written
ServeError(i) ==
    /\ tasks[i].phase = "req"
    /\ errors < MaxErrors
    /\ errors' = errors + 1
    /\ tasks' = [tasks EXCEPT ![i].phase = "resp", ![i].ok = FALSE]
    /\ UNCHANGED << dbItems, dbCategories, nextId, session, epoch, items,
                    categories, newItemInputs, collapsedCategories, storeMode,
                    showAddCategory, newCategoryName, loading, channels, mutated, ops, inputs >>

\* another device of the owner flips needed on one of the owner's items
RemoteToggleNeeded(i) ==
    /\ i \in 1..Len(dbItems)
    /\ dbItems[i].user_id = session
    /\ dbItems' = [dbItems EXCEPT ![i].needed = ~@]
    /\ channels' = Notified(channels, ItemsTable, dbItems[i].user_id)
    /\ Operation
    /\ UNCHANGED << dbCategories, nextId, session, epoch, items, categories,
                    newItemInputs, collapsedCategories, storeMode,
                    showAddCategory, newCategoryName, loading, tasks, mutated >>

----------------------------------------------------------------------------
(* Continuations: what runs in the view when a remote call has settled *)

\* initializeData's setLoading(false): the fetch that settles is the last
\* one of its Promise.all
LoadingAfter(i) ==
    IF /\ tasks[i].init > 0
       /\ \A j \in 1..Len(tasks) : j # i => tasks[j].init # tasks[i].init
    THEN FALSE
    ELSE loading

\* fetchItems after its await: setItems(data || []) or the logged error
ResumeFetchItems(i) ==
    /\ tasks[i].phase = "resp"
    /\ tasks[i].kind = "fetchItems"
    /\ items' = IF tasks[i].ok THEN tasks[i].data ELSE items
    /\ loading' = LoadingAfter(i)
    /\ tasks' = RemoveAt(tasks, i)
    /\ UNCHANGED << dbItems, dbCategories, nextId, session, epoch, categories,
                    newItemInputs, collapsedCategories, storeMode,
                    showAddCategory, newCategoryName, channels, mutated, ops, inputs, errors >>

\* fetchCategories after its await: the resolved list, or the built-ins
ResumeFetchCategories(i) ==
    /\ tasks[i].phase = "resp"
    /\ tasks[i].kind = "fetchCategories"
    /\ categories' = IF tasks[i].ok THEN ResolveCategories(tasks[i].data)
                     ELSE defaultCategories
    /\ loading' = LoadingAfter(i)
    /\ tasks' = RemoveAt(tasks, i)
    /\ UNCHANGED << dbItems, dbCategories, nextId, session, epoch, items,
                    newItemInputs, collapsedCategories, storeMode,
                    showAddCategory, newCategoryName, channels, mutated, ops, inputs, errors >>

\* a mutating handler after its await, the remote call having succeeded: its
\* state updates, then the fetch it awaits next
ResumeMutation(i) ==
    LET t == tasks[i] IN
    /\ t.phase = "resp"
    /\ t.kind \in MutationKinds
    /\ t.ok
    /\ newCategoryName' = IF t.kind = "addCategory" THEN EmptyText ELSE newCategoryName
    /\ showAddCategory' = IF t.kind = "addCategory" THEN FALSE ELSE showAddCategory
    /\ newItemInputs' = IF t.kind = "addItem"
                        THEN [t.inputs EXCEPT ![t.category] = EmptyText]
                        ELSE newItemInputs
    /\ storeMode' = IF t.kind = "resetShopping" THEN FALSE ELSE storeMode
    /\ tasks' = [tasks EXCEPT ![i] = RefetchOf(t)]
    /\ UNCHANGED << dbItems, dbCategories, nextId, session, epoch, items,
                    categories, collapsedCategories, loading, channels, mutated, ops, inputs, errors >>

\* a catch block that also resets the forms and the mode
CatchMutationResetting(i) ==
    /\ tasks[i].phase = "resp"
    /\ tasks[i].kind \in MutationKinds
    /\ ~tasks[i].ok
    /\ tasks' = RemoveAt(tasks, i)
    /\ newItemInputs' = NoInputs
    /\ newCategoryName' = EmptyText
    /\ showAddCategory' = FALSE
    /\ storeMode' = FALSE
    /\ UNCHANGED << dbItems, dbCategories, nextId, session, epoch, items,
                    categories, collapsedCategories, loading, channels, mutated,
                    ops, inputs, errors >>

\* a mutating handler after its await, the remote call having failed: the
\* catch block logs the error
CatchMutation(i) ==
    /\ tasks[i].phase = "resp"
    /\ tasks[i].kind \in MutationKinds
    /\ ~tasks[i].ok
    /\ tasks' = RemoveAt(tasks, i)
    /\ UNCHANGED << dbItems, dbCategories, nextId, session, epoch, items,
                    categories, newItemInputs, collapsedCategories, storeMode,
                    showAddCategory, newCategoryName, loading, channels, mutated, ops, inputs, errors >>

\* channels whose callbacks call the fetch of the other table
NotifyCrossed(k) ==
    /\ channels[k].pending > 0
    /\ Len(tasks) < MaxTasks
    /\ channels' = [channels EXCEPT ![k].pending = @ - 1]
    /\ tasks' = Append(tasks,
                       Call(IF channels[k].table = ItemsTable THEN "fetchCategories"
                            ELSE "fetchItems",
                            channels[k].user_id))
    /\ UNCHANGED << dbItems, dbCategories, nextId, session, epoch, items,
                    categories, newItemInputs, collapsedCategories, storeMode,
                    showAddCategory, newCategoryName, loading, mutated, ops,
                    inputs, errors >>

\* a channel delivers a notification: its callback calls the fetch of its
\* table, in the closure of the render that subscribed
Notify(k) ==
    /\ channels[k].pending > 0
    /\ Len(tasks) < MaxTasks
    /\ channels' = [channels EXCEPT ![k].pending = @ - 1]
    /\ tasks' = Append(tasks,
                       Call(IF channels[k].table = ItemsTable THEN "fetchItems"
                            ELSE "fetchCategories",
                            channels[k].user_id))
    /\ UNCHANGED << dbItems, dbCategories, nextId, session, epoch, items,
                    categories, newItemInputs, collapsedCategories, storeMode,
                    showAddCategory, newCategoryName, loading, mutated, ops, inputs, errors >>

----------------------------------------------------------------------------
(* Spec: the view from its construction, against a remote content that    *)
(* holds one item and one custom category of owner A, one item of B,      *)
(* needed and bought, and a stored category of B named as a built-in one   *)

Init ==
    /\ dbItems = << Item(1, Milk, Dairy, FALSE, FALSE, "A"),
                    Item(2, apple, Bread, TRUE, TRUE, "B") >>
    /\ dbCategories = << CategoryRow(Dairy, "A"), CategoryRow(Bread, "B") >>
    /\ nextId = 3
    /\ session = NoUser
    /\ epoch = 0
    /\ items = << >>
    /\ categories = << >>
    /\ newItemInputs = [c \in AllCategories |-> EmptyText]
    /\ collapsedCategories = {}
    /\ storeMode = FALSE
    /\ showAddCategory = FALSE
    /\ newCategoryName = EmptyText
    /\ loading = TRUE
    /\ tasks = << >>
    /\ channels = << >>
    /\ mutated = {}
    /\ ops = 0
    /\ inputs = 0
    /\ errors = 0

Next ==
    \/ \E user \in Users : SetSession(user)
    \/ Discard
    \/ SwitchMode
    \/ \E category \in ToggledCategories : toggleCategory(category)
    \/ OpenAddCategory
    \/ \E value \in CategoryTexts : TypeCategoryName(value)
    \/ CancelAddCategory
    \/ addCategory
    \/ \E input \in TypedInputs : updateNewItemInput(input[1], input[2])
    \/ \E category \in TypedCategories : addItem(category)
    \/ \E id \in ShownItemIds : toggleNeeded(id)
    \/ \E id \in ShownItemIds : toggleBought(id)
    \/ \E id \in ShownItemIds : deleteItem(id)
    \/ resetShopping
    \/ \E i \in 1..Len(tasks) : ServeFetch(i)
    \/ \E i \in 1..Len(tasks) : ServeWrite(i)
    \/ \E i \in 1..Len(tasks) : ServeError(i)
    \/ \E i \in 1..Len(dbItems) : RemoteToggleNeeded(i)
    \/ \E i \in 1..Len(tasks) : ResumeFetchItems(i)
    \/ \E i \in 1..Len(tasks) : ResumeFetchCategories(i)
    \/ \E i \in 1..Len(tasks) : ResumeMutation(i)
    \/ \E i \in 1..Len(tasks) : CatchMutation(i)
    \/ \E k \in 1..Len(channels) : Notify(k)

Spec == Init /\ [][Next]_vars

----------------------------------------------------------------------------
(* ViewSpec: the derived view computations over drawn collections.  The     *)
(* initial states are the view after owner A's initial load of a drawn      *)
(* remote content has completed.                                            *)

ViewNames == {apple, Milk}
ViewCategories == {Bread, Dairy}
StoredNames == {Bread, Dairy, Snacks}

\* name, category, needed, bought of a drawn item
ViewItemFields == ViewNames \X ViewCategories \X BOOLEAN \X BOOLEAN

ViewInit ==
    /\ \/ /\ \E n \in 0..MaxViewItems : \E f \in [1..n -> ViewItemFields] :
                 dbItems = [i \in 1..n |->
                               Item(i, f[i][1], f[i][2], f[i][3], f[i][4], "A")]
          /\ dbCategories = << >>
       \/ /\ dbItems = << >>
          /\ \E n \in 1..MaxStoredCats : \E f \in [1..n -> StoredNames] :
                 dbCategories = [i \in 1..n |-> CategoryRow(f[i], "A")]
    /\ nextId = Len(dbItems) + 1
    /\ session = "A"
    /\ epoch = 1
    /\ items = dbItems
    /\ categories = ResolveCategories(dbCategories)
    /\ newItemInputs = [c \in AllCategories |-> EmptyText]
    /\ collapsedCategories = {}
    /\ storeMode = FALSE
    /\ showAddCategory = FALSE
    /\ newCategoryName = EmptyText
    /\ loading = FALSE
    /\ tasks = << >>
    /\ channels = ChannelsOf("A")
    /\ mutated = {}
    /\ ops = 0
    /\ inputs = 0
    /\ errors = 0

ViewNext ==
    \/ SwitchMode
    \/ \E category \in ToggledCategories : toggleCategory(category)

ViewSpec == ViewInit /\ [][ViewNext]_vars

----------------------------------------------------------------------------
(* Claims about the derived view computations *)

\* the categories the local items carry
ItemCategories == {items[i].category : i \in 1..Len(items)}

\* C1: in plan mode getItemsByCategory(c) holds exactly the items of category
\* c, each once and no other, in ascending order of the lower-cased name
C1_PlanItemsExactAndSorted ==
    ~storeMode =>
        \A c \in AllCategories : \A r \in {getItemsByCategory(c)} :
            /\ \A j \in 1..Len(r) : r[j] \in Range(items) /\ r[j].category = c
            /\ \A i \in 1..Len(items) :
                   items[i].category = c =>
                       Cardinality({j \in 1..Len(r) : r[j] = items[i]}) = 1
            /\ Len(r) = Cardinality({i \in 1..Len(items) : items[i].category = c})
            /\ \A j, k \in 1..Len(r) :
                   j < k => localeCompare(toLowerCase(r[j].name),
                                          toLowerCase(r[k].name)) <= 0

\* plan mode, a category whose items are not in name order as fetched, and an
\* item of another category beside them
C1_Witness ==
    /\ ~storeMode
    /\ \E c \in ItemCategories :
           /\ Len(getItemsByCategory(c)) >= 2
           /\ getItemsByCategory(c) # SelectSeq(items, LAMBDA item : item.category = c)
           /\ Len(items) > Len(getItemsByCategory(c))

\* C2: in store mode getItemsByCategory(c) is the plan-mode list of c with the
\* items that are not needed left out, the others in the same order
C2_StoreItemsAreNeededPlanItems ==
    storeMode =>
        \A c \in AllCategories :
            getItemsByCategory(c) =
                SelectSeq(ItemsForCategory(items, FALSE, c), LAMBDA item : item.needed)

\* store mode, a category with two needed items out of name order as fetched,
\* one item that is not needed, and a bought item that is not needed
C2_Witness ==
    /\ storeMode
    /\ \E c \in ItemCategories :
           /\ Len(getItemsByCategory(c)) >= 2
           /\ getItemsByCategory(c)
                  # SelectSeq(items, LAMBDA item : item.category = c /\ item.needed)
           /\ Len(ItemsForCategory(items, FALSE, c)) > Len(getItemsByCategory(c))
    /\ \E i \in 1..Len(items) : items[i].bought /\ ~items[i].needed

\* C3: neededCount counts the needed items not bought, boughtCount the needed
\* items bought, together every needed item; the per-category lists of either
\* mode add up to the same counts
C3_Counts ==
    LET Needed == {i \in 1..Len(items) : items[i].needed}
        Bought == {i \in 1..Len(items) : items[i].bought}
        \* the places <<category, position>> of the per-category lists of a
        \* mode that hold a needed item, bought or not as asked
        Places(mode, bought) ==
            UNION { UNION { { << c, j >> :
                                j \in { k \in 1..Len(r) :
                                          r[k].needed /\ r[k].bought = bought } } :
                            r \in {ItemsForCategory(items, mode, c)} } :
                    c \in ItemCategories }
    IN
    /\ getNeededItemsCount = Cardinality(Needed \ Bought)
    /\ getBoughtItemsCount = Cardinality(Needed \cap Bought)
    /\ getNeededItemsCount + getBoughtItemsCount = Cardinality(Needed)
    /\ \A mode \in BOOLEAN :
           /\ getNeededItemsCount = Cardinality(Places(mode, FALSE))
           /\ getBoughtItemsCount = Cardinality(Places(mode, TRUE))

\* items of two categories: one needed and bought, one needed and not bought,
\* one bought and not needed
C3_Witness ==
    /\ Cardinality(ItemCategories) = 2
    /\ \E i, j, k \in 1..Len(items) :
           /\ items[i].needed /\ items[i].bought
           /\ items[j].needed /\ ~items[j].bought
           /\ ~items[k].needed /\ items[k].bought
    /\ storeMode

----------------------------------------------------------------------------
(* Claims about the operations *)

\* no remote call is in flight and no notification is pending
Quiescent ==
    /\ tasks = << >>
    /\ \A k \in 1..Len(channels) : channels[k].pending = 0

NoDuplicates(s) == \A i, j \in 1..Len(s) : i # j => s[i] # s[j]

\* this step issues a remote call of one of the kinds
Issues(kinds) ==
    /\ Len(tasks') = Len(tasks) + 1
    /\ tasks'[Len(tasks')].kind \in kinds
    /\ tasks'[Len(tasks')].phase = "req"

\* in this step the service applies call i, of one of the kinds
Applies(i, kinds) ==
    /\ tasks[i].kind \in kinds /\ tasks[i].phase = "req"
    /\ Len(tasks') = Len(tasks)
    /\ tasks'[i].phase = "resp" /\ tasks'[i].ok

\* in this step call i, of one of the kinds, fails
Fails(i, kinds) ==
    /\ tasks[i].kind \in kinds /\ tasks[i].phase = "req"
    /\ Len(tasks') = Len(tasks)
    /\ tasks'[i].phase = "resp" /\ ~tasks'[i].ok

\* in this step the continuation of call i, of one of the kinds, runs
Resumes(i, kinds) ==
    /\ tasks[i].kind \in kinds /\ tasks[i].phase = "resp"
    /\ \/ tasks' = RemoveAt(tasks, i)
       \/ Len(tasks') = Len(tasks) /\ tasks'[i] # tasks[i]

\* C4: the list a category fetch resolves holds no name twice and is the
\* built-in names followed by the stored names that are not built-ins, in the
\* order they were created
C4_ResolvedCategoriesClaim ==
    [][\A i \in 1..Len(tasks) :
           Resumes(i, {"fetchCategories"}) /\ tasks[i].ok =>
               /\ NoDuplicates(categories')
               /\ SubSeq(categories', 1, Len(defaultCategories)) = defaultCategories
               /\ SubSeq(categories', Len(defaultCategories) + 1, Len(categories'))
                      = SelectSeq([k \in 1..Len(tasks[i].data) |-> tasks[i].data[k].name],
                                  LAMBDA name : ~includes(defaultCategories, name))]_vars

\* C5 as claimed: two toggles of needed on one item that are in flight
\* together write opposite values, the second one undoing the first
C5_TwoTogglesRestoreClaim ==
    \A i, j \in 1..Len(tasks) :
        /\ i < j
        /\ tasks[i].kind = "toggleNeeded" /\ tasks[j].kind = "toggleNeeded"
        /\ tasks[i].id = tasks[j].id /\ tasks[i].uid = tasks[j].uid
        => tasks[j].val # tasks[i].val

\* C5 amended: a toggle of needed started while the local copy of the item
\* carries the remote flag writes the negation of the remote flag, so two
\* toggles, each started from an up-to-date local copy, restore the flag
C5_ToggleFromCurrentCopyFlips ==
    [][Issues({"toggleNeeded"}) =>
           LET t == tasks'[Len(tasks')] IN
           /\ Finds(items, t.id)
           /\ \A k \in 1..Len(dbItems) :
                  /\ dbItems[k].id = t.id
                  /\ dbItems[k].needed = find(items, t.id).needed
                  => t.val = ~dbItems[k].needed]_vars

\* a second toggle of item 1, started after the first one was applied and
\* fetched back: it writes FALSE over the TRUE the first one wrote
C5_Witness ==
    /\ ItemsTable \in mutated
    /\ \E i \in 1..Len(tasks) :
           /\ tasks[i].kind = "toggleNeeded" /\ tasks[i].phase = "req"
           /\ tasks[i].id = 1 /\ tasks[i].val = FALSE
    /\ \E k \in 1..Len(dbItems) : dbItems[k].id = 1 /\ dbItems[k].needed
    /\ \E k \in 1..Len(items) : items[k].id = 1 /\ items[k].needed

\* C6: the service applying a reset clears needed and bought on every row of
\* the caller and changes no other row, and the continuation of a successful
\* reset leaves the view in plan mode
C6_ResetClearsOwnerAndPlans ==
    [][\A i \in 1..Len(tasks) :
           /\ Applies(i, {"resetShopping"}) =>
                  /\ Len(dbItems') = Len(dbItems)
                  /\ \A k \in 1..Len(dbItems) :
                         IF dbItems[k].user_id = tasks[i].uid
                         THEN dbItems'[k] = [dbItems[k] EXCEPT !.needed = FALSE,
                                                               !.bought = FALSE]
                         ELSE dbItems'[k] = dbItems[k]
           /\ Resumes(i, {"resetShopping"}) /\ tasks[i].ok => storeMode' = FALSE]_vars

\* a reset has been applied and resumed: the view is in plan mode, the local
\* copy still shows the needed item the reset cleared remotely, and the other
\* owner's needed item is untouched
C6_Witness ==
    /\ ~storeMode
    /\ ops = 2 /\ inputs = 1
    /\ \E i \in 1..Len(tasks) : tasks[i].kind = "fetchItems" /\ tasks[i].init = 0
    /\ \E k \in 1..Len(items) : items[k].needed
    /\ \A k \in 1..Len(dbItems) :
           dbItems[k].user_id = session => ~dbItems[k].needed /\ ~dbItems[k].bought
    /\ \E k \in 1..Len(dbItems) : dbItems[k].user_id # session /\ dbItems[k].needed

\* C7: after a successful mutation, once nothing is in flight or pending and
\* no remote call has failed, the local copy of the affected collection is the
\* owner's remote collection
C7_ConvergesClaim ==
    Quiescent /\ errors = 0 =>
        /\ ItemsTable \in mutated => items = OwnerRows(dbItems, session)
        /\ CategoriesTable \in mutated =>
               categories = ResolveCategories(OwnerRows(dbCategories, session))

\* C8: outside the loading state every local item, and every custom name of
\* the resolved list, belongs to the current owner
C8_OwnDataOnlyClaim ==
    Rendered =>
        /\ \A k \in 1..Len(items) : items[k].user_id = session
        /\ \A c \in Range(categories) \ Range(defaultCategories) :
               \E k \in 1..Len(dbCategories) :
                   dbCategories[k].name = c /\ dbCategories[k].user_id = session

\* inserts of a category name for an owner: issued and in flight, or stored
InsertsOf(name, uid) ==
    Cardinality({i \in 1..Len(tasks) :
                    /\ tasks[i].kind = "addCategory"
                    /\ tasks[i].name = name /\ tasks[i].uid = uid})
    + Cardinality({k \in 1..Len(dbCategories) :
                      dbCategories[k] = CategoryRow(name, uid)})

C10_FailedMutationKeepsView ==
    [][\/ Issues(MutationKinds)
       \/ \E i \in 1..Len(tasks) : Fails(i, MutationKinds)
       \/ \E i \in 1..Len(tasks) : Resumes(i, MutationKinds) /\ ~tasks[i].ok
       => UNCHANGED << items, categories, storeMode, newItemInputs,
                       newCategoryName, showAddCategory, collapsedCategories,
                       loading >>]_vars

\* an add-item has failed and its catch block is about to run: the typed
\* text is still in the input and store mode, entered meanwhile, is still on
C10_Witness ==
    /\ \E i \in 1..Len(tasks) :
           /\ tasks[i].kind = "addItem" /\ tasks[i].phase = "resp"
           /\ ~tasks[i].ok
    /\ newItemInputs[Bread] # EmptyText
    /\ storeMode

\* C11: the loading state is not cleared while a fetch of the current
\* owner's initial load is still in flight
C11_LoadingCoversInitialLoadClaim ==
    ~loading =>
        \A i \in 1..Len(tasks) : ~(tasks[i].init = epoch /\ tasks[i].uid = session)

\* C12: the continuation of a failed category fetch of an initialization
\* leaves the built-in list, and the continuation of a failed item fetch of an
\* initialization leaves the local item collection empty
C12_FailedLoadDegradesClaim ==
    [][\A i \in 1..Len(tasks) :
           /\ Resumes(i, {"fetchCategories"}) /\ tasks[i].init > 0 /\ ~tasks[i].ok
                  => categories' = defaultCategories
           /\ Resumes(i, {"fetchItems"}) /\ tasks[i].init > 0 /\ ~tasks[i].ok
                  => items' = << >>]_vars

\* in this step channel k delivers a notification
Delivers(k) ==
    /\ channels[k].pending > 0
    /\ channels' = [channels EXCEPT ![k].pending = @ - 1]

\* C13: a notification delivered while an owner is present starts one fetch,
\* of the channel's own collection; and the continuation of a successful
\* fetch sets the local collection to what the fetch returned, whatever the
\* local collection held
C13_NotificationRefetchesOwnCollection ==
    [][/\ \A k \in 1..Len(channels) :
              Delivers(k) =>
                  /\ session # NoUser
                  /\ Len(tasks') = Len(tasks) + 1
                  /\ SubSeq(tasks', 1, Len(tasks)) = tasks
                  /\ tasks'[Len(tasks')].phase = "req"
                  /\ tasks'[Len(tasks')].kind =
                         IF channels[k].table = ItemsTable THEN "fetchItems"
                         ELSE "fetchCategories"
                  /\ UNCHANGED << items, categories >>
       /\ \A i \in 1..Len(tasks) :
              /\ Resumes(i, {"fetchItems"}) /\ tasks[i].ok
                     => items' = tasks[i].data /\ categories' = categories
              /\ Resumes(i, {"fetchCategories"}) /\ tasks[i].ok
                     => /\ categories' = ResolveCategories(tasks[i].data)
                        /\ items' = items]_vars

\* a change made elsewhere was notified, and the fetch the notification
\* started has returned rows that differ from the local collection; the view
\* itself has written nothing and no category fetch is in flight
C13_Witness ==
    /\ epoch = 1 /\ mutated = {} /\ ~loading
    /\ \E i \in 1..Len(tasks) :
           /\ tasks[i].kind = "fetchItems" /\ tasks[i].init = 0
           /\ tasks[i].phase = "resp" /\ tasks[i].ok
           /\ tasks[i].data # items
    /\ \A i \in 1..Len(tasks) : tasks[i].kind # "fetchCategories"

\* C14: there is at most one channel on the item collection and at most one
\* on the category collection, each filtered by the current owner, and none
\* once the view is discarded; a notification is delivered on a channel of
\* the current owner and starts one fetch, in that owner's name
C14_OneSubscriptionPerCollection ==
    /\ [](/\ \A table \in {ItemsTable, CategoriesTable} :
               Cardinality({k \in 1..Len(channels) : channels[k].table = table}) <= 1
          /\ \A k \in 1..Len(channels) : channels[k].user_id = session
          /\ session = NoUser => channels = << >>)
    /\ [][\A k \in 1..Len(channels) :
              Delivers(k) =>
                  /\ channels[k].user_id = session
                  /\ Len(tasks') = Len(tasks) + 1
                  /\ tasks'[Len(tasks')].uid = session]_vars

\* the owner has changed and a change of the new owner's items waits to be
\* notified on the one item channel, which is the new owner's
C14_Witness ==
    /\ epoch = 2
    /\ Len(channels) = 2
    /\ \E k \in 1..Len(channels) :
           /\ channels[k].table = ItemsTable
           /\ channels[k].user_id = session
           /\ channels[k].pending > 0

UpdateKinds == {"toggleNeeded", "toggleBought", "deleteItem", "resetShopping"}

\* C15: every update and delete is issued in the current owner's name, and
\* when the service applies it the rows of the other owners are as before;
\* a toggle or a delete changes no row but the one with its id
C15_WritesScopedToOwner ==
    [][/\ Issues(UpdateKinds) => tasks'[Len(tasks')].uid = session
       /\ \A i \in 1..Len(tasks) :
              Applies(i, UpdateKinds) =>
                  /\ SelectSeq(dbItems', LAMBDA row : row.user_id # tasks[i].uid)
                         = SelectSeq(dbItems, LAMBDA row : row.user_id # tasks[i].uid)
                  /\ tasks[i].kind # "resetShopping" =>
                         SelectSeq(dbItems', LAMBDA row : row.id # tasks[i].id)
                             = SelectSeq(dbItems, LAMBDA row : row.id # tasks[i].id)
                  /\ dbCategories' = dbCategories]_vars

\* a delete issued in one owner's name for an item of another owner has been
\* applied, and the item is still stored
C15_Witness ==
    \E i \in 1..Len(tasks) :
        /\ tasks[i].kind = "deleteItem"
        /\ tasks[i].phase = "resp" /\ tasks[i].ok
        /\ \E k \in 1..Len(dbItems) :
               dbItems[k].id = tasks[i].id /\ dbItems[k].user_id # tasks[i].uid

\* the positions of the local items of a category that satisfy a condition
ItemsWhere(category, Cond(_)) ==
    {i \in 1..Len(items) : items[i].category = category /\ Cond(items[i])}

\* C16: in plan mode the visible categories are the resolved categories; in
\* store mode they are, in resolved order, the resolved categories with a
\* needed local item, and none when no local item is needed
C16_VisibleCategories ==
    \A visible \in {visibleCategories} :
        /\ ~storeMode => visible = categories
        /\ storeMode =>
               /\ visible = SelectSeq(categories,
                                LAMBDA c : ItemsWhere(c, LAMBDA item : item.needed) # {})
               /\ (\A i \in 1..Len(items) : ~items[i].needed) => visible = << >>

\* store mode with items in Bread and in Dairy, not all of them needed: of
\* the resolved categories only Bread is visible
C16_Witness ==
    /\ storeMode
    /\ visibleCategories = << Bread >>
    /\ \E i \in 1..Len(items) : items[i].category = Bread /\ ~items[i].needed
    /\ Len(categories) > 1

\* C19: the stats of a category are, in store mode, the bought among the
\* needed items of the category over the needed items of the category, and in
\* plan mode the needed items of the category over all its items; completed
\* is never negative and never above total
C19_CategoryStats ==
    \A c \in AllCategories : \A st \in {getCategoryStats(c)} :
        /\ storeMode =>
               /\ st.total = Cardinality(ItemsWhere(c, LAMBDA item : item.needed))
               /\ st.completed =
                      Cardinality(ItemsWhere(c, LAMBDA item : item.needed /\ item.bought))
        /\ ~storeMode =>
               /\ st.total = Cardinality(ItemsWhere(c, LAMBDA item : TRUE))
               /\ st.completed = Cardinality(ItemsWhere(c, LAMBDA item : item.needed))
        /\ 0 <= st.completed /\ st.completed <= st.total

\* plan mode with three items in Bread: one needed, another one bought and
\* not needed; the stats count the needed one
C19_Witness ==
    /\ ~storeMode
    /\ getCategoryStats(Bread) = [completed |-> 1, total |-> 3]
    /\ \E i \in 1..Len(items) :
           items[i].category = Bread /\ items[i].bought /\ ~items[i].needed

\* the view shows owner A's one item, Milk in Dairy, needed, in store mode,
\* with Dairy among the resolved categories
MilkNeededInStore ==
    /\ session = "A" /\ Rendered /\ storeMode
    /\ includes(categories, Dairy)
    /\ Len(items) = 1
    /\ items[1].name = Milk /\ items[1].category = Dairy /\ items[1].needed

\* C17: with Milk needed and the view in store mode, Dairy is visible and
\* Milk is in its list; a toggle of bought on Milk, not bought yet, writes
\* TRUE and the service sets bought on Milk's row and nothing else; and with
\* Milk bought the bought count is 1 and the needed count 0
C17_MilkScenario ==
    /\ [](MilkNeededInStore =>
              /\ includes(visibleCategories, Dairy)
              /\ getItemsByCategory(Dairy) = << items[1] >>
              /\ items[1].bought => getBoughtItemsCount = 1 /\ getNeededItemsCount = 0
              /\ ~items[1].bought => getBoughtItemsCount = 0 /\ getNeededItemsCount = 1)
    /\ [][/\ MilkNeededInStore /\ ~items[1].bought /\ Issues({"toggleBought"})
              => /\ tasks'[Len(tasks')].id = items[1].id
                 /\ tasks'[Len(tasks')].val = TRUE
          /\ \A i \in 1..Len(tasks) :
                 Applies(i, {"toggleBought"}) /\ tasks[i].val =>
                     \A k \in 1..Len(dbItems) :
                         dbItems'[k] =
                             IF dbItems[k].id = tasks[i].id /\ dbItems[k].user_id = tasks[i].uid
                             THEN [dbItems[k] EXCEPT !.bought = TRUE]
                             ELSE dbItems[k]]_vars

\* the scenario has run to its end in owner A's view, nothing failed and
\* nothing is in flight: Milk is needed and bought, remotely and locally,
\* Dairy is visible with Milk in it, and the counts are 1 bought, 0 needed
C17_Witness ==
    /\ MilkNeededInStore
    /\ epoch = 1 /\ errors = 0 /\ Quiescent
    /\ ItemsTable \in mutated
    /\ items = OwnerRows(dbItems, "A")
    /\ items[1].bought
    /\ getBoughtItemsCount = 1 /\ getNeededItemsCount = 0

\* C18: an insert of an item is issued, one at a time, only for a category
\* whose pending name has a non-empty trimmed text; it carries that trimmed
\* text, the category and the current owner, and changes no state; the
\* service stores it as one new row, not needed and not bought
C18_AddItemInsertsTrimmedName ==
    [][/\ Issues({"addItem"}) =>
              \A t \in {tasks'[Len(tasks')]} :
                  /\ SubSeq(tasks', 1, Len(tasks)) = tasks
                  /\ t.category \in AllCategories
                  /\ trim(newItemInputs[t.category]) # EmptyText
                  /\ t.name = trim(newItemInputs[t.category])
                  /\ t.uid = session
                  /\ UNCHANGED << dbItems, dbCategories, viewVars >>
       /\ \A i \in 1..Len(tasks) :
              Applies(i, {"addItem"}) =>
                  /\ Len(dbItems') = Len(dbItems) + 1
                  /\ SubSeq(dbItems', 1, Len(dbItems)) = dbItems
                  /\ \A row \in {dbItems'[Len(dbItems')]} :
                         /\ row.name = tasks[i].name
                         /\ row.category = tasks[i].category
                         /\ ~row.needed /\ ~row.bought
                         /\ row.user_id = tasks[i].uid
                         /\ \A k \in 1..Len(dbItems) : dbItems[k].id # row.id]_vars

\* an insert issued from a pending name typed with spaces around it has been
\* applied: the new row holds the trimmed name, in Bread, not needed, not
\* bought, for the owner who typed it
C18_Witness ==
    \E i \in 1..Len(tasks) :
        /\ tasks[i].kind = "addItem" /\ tasks[i].phase = "resp" /\ tasks[i].ok
        /\ tasks[i].inputs[Bread] # tasks[i].name
        /\ dbItems[Len(dbItems)] = Item(nextId - 1, milk, Bread, FALSE, FALSE, tasks[i].uid)

\* C20: in store mode no insert of an item or of a category, no delete and
\* no toggle of needed is issued; the calls issued are the reset and the
\* toggle of bought, the latter for an item that is needed locally
C20_StoreModeOperations ==
    [][storeMode /\ Issues(MutationKinds) =>
           \A t \in {tasks'[Len(tasks')]} :
               /\ t.kind \in {"toggleBought", "resetShopping"}
               /\ t.kind = "toggleBought" =>
                      \E k \in 1..Len(items) : items[k].id = t.id /\ items[k].needed]_vars

\* in store mode a toggle of bought has been issued for a needed item, while
\* the add-category form, opened in plan mode, is still marked open
C20_Witness ==
    /\ storeMode /\ Rendered
    /\ showAddCategory
    /\ \E i \in 1..Len(tasks) :
           /\ tasks[i].kind = "toggleBought" /\ tasks[i].phase = "req"
           /\ \E k \in 1..Len(items) : items[k].id = tasks[i].id /\ items[k].needed

\* a list begins with the built-in names in their order
HasBuiltinPrefix(s) ==
    /\ Len(s) >= Len(defaultCategories)
    /\ \A i \in 1..Len(defaultCategories) : s[i] = defaultCategories[i]

\* C21: outside the loading state the resolved list begins with the built-in
\* names in their order, and no step of the view, once the list begins so,
\* makes it begin otherwise
C21_BuiltinPrefix ==
    /\ [](~loading => HasBuiltinPrefix(categories))
    /\ [][HasBuiltinPrefix(categories) => HasBuiltinPrefix(categories')]_vars

\* owner B's view after its load: B's only stored category carries a
\* built-in name, and the resolved list is the built-in list, that name once
C21_Witness ==
    /\ session = "B" /\ Rendered /\ errors = 0 /\ tasks = << >>
    /\ \E k \in 1..Len(dbCategories) :
           dbCategories[k].user_id = "B" /\ includes(defaultCategories, dbCategories[k].name)
    /\ categories = defaultCategories

\* C22: a toggle is issued for an item of the local collection and writes the
\* negation of the flag that item has there, whatever the remote row holds;
\* the service stores the value written
C22_ToggleNegatesLocalFlag ==
    [][/\ Issues({"toggleNeeded", "toggleBought"}) =>
              \A t \in {tasks'[Len(tasks')]} :
                  /\ Finds(items, t.id)
                  /\ t.kind = "toggleNeeded" => t.val = ~find(items, t.id).needed
                  /\ t.kind = "toggleBought" => t.val = ~find(items, t.id).bought
       /\ \A i \in 1..Len(tasks) :
              Applies(i, {"toggleNeeded", "toggleBought"}) =>
                  \A k \in 1..Len(dbItems') :
                      dbItems'[k].id = tasks[i].id /\ dbItems'[k].user_id = tasks[i].uid
                          => IF tasks[i].kind = "toggleNeeded"
                             THEN dbItems'[k].needed = tasks[i].val
                             ELSE dbItems'[k].bought = tasks[i].val]_vars

\* the view has written nothing yet; its item was changed remotely after its
\* last fetch, and the toggle it has issued from the stale local flag writes
\* the value the remote row holds already
C22_Witness ==
    /\ mutated = {} /\ epoch = 1 /\ errors = 0
    /\ \E i \in 1..Len(tasks) :
           /\ tasks[i].kind = "toggleNeeded" /\ tasks[i].phase = "req"
           /\ \E k \in 1..Len(dbItems) :
                  /\ dbItems[k].id = tasks[i].id
                  /\ dbItems[k].needed = tasks[i].val
           /\ \E k \in 1..Len(items) :
                  /\ items[k].id = tasks[i].id
                  /\ items[k].needed = ~tasks[i].val
    /\ \A i \in 1..Len(tasks) : tasks[i].kind \notin FetchKinds

\* C23: the service applying a toggle of needed changes the needed flag of
\* the row with its id and owner and nothing else, bought included, and
\* applying a toggle of bought changes that row's bought flag and nothing
\* else; and a local item that is bought and not needed adds nothing to the
\* needed count or to the bought count
C23_IndependentFlags ==
    /\ [][\A i \in 1..Len(tasks) :
              /\ Applies(i, {"toggleNeeded"}) =>
                     /\ Len(dbItems') = Len(dbItems)
                     /\ \A k \in 1..Len(dbItems) :
                            dbItems'[k] =
                                IF /\ dbItems[k].id = tasks[i].id
                                   /\ dbItems[k].user_id = tasks[i].uid
                                THEN [dbItems[k] EXCEPT !.needed = tasks[i].val]
                                ELSE dbItems[k]
              /\ Applies(i, {"toggleBought"}) =>
                     /\ Len(dbItems') = Len(dbItems)
                     /\ \A k \in 1..Len(dbItems) :
                            dbItems'[k] =
                                IF /\ dbItems[k].id = tasks[i].id
                                   /\ dbItems[k].user_id = tasks[i].uid
                                THEN [dbItems[k] EXCEPT !.bought = tasks[i].val]
                                ELSE dbItems[k]]_vars
    /\ [](\A k \in 1..Len(items) :
              items[k].bought /\ ~items[k].needed =>
                  /\ getNeededItemsCount = NeededItemsCount(RemoveAt(items, k))
                  /\ getBoughtItemsCount = BoughtItemsCount(RemoveAt(items, k)))

\* a toggle of needed on a bought item has been applied and fetched back: the
\* item is bought and not needed, remotely and locally, and both counts are 0
C23_Witness ==
    /\ Rendered /\ ItemsTable \in mutated
    /\ items = OwnerRows(dbItems, session)
    /\ \E k \in 1..Len(items) : items[k].bought /\ ~items[k].needed
    /\ getNeededItemsCount = 0 /\ getBoughtItemsCount = 0

\* C24: outside the loading state every local item's category is a name of
\* the resolved list, and in plan mode it is the name at exactly one position
\* of the visible categories
C24_ItemsInResolvedCategoriesClaim ==
    Rendered =>
        \A k \in 1..Len(items) :
            /\ includes(categories, items[k].category)
            /\ ~storeMode =>
                   Cardinality({j \in 1..Len(visibleCategories) :
                                    visibleCategories[j] = items[k].category}) = 1

\* C25: a step that changes the mode flag is either the mode switch, which
\* starts no remote call and leaves the remote tables, the items, the
\* categories, the pending inputs and the collapsed set as they are, or the
\* continuation of a successful reset, which sets plan mode; a step that
\* changes the collapsed set starts no remote call, leaves the remote tables,
\* the items, the categories, the pending inputs and the mode as they are,
\* and flips one visible category, so that flipping it again gives the
\* collapsed set back
C25_LocalOnlyGestures ==
    [][/\ storeMode' # storeMode =>
              \/ /\ storeMode' = ~storeMode
                 /\ UNCHANGED << dbItems, dbCategories, nextId, tasks, channels,
                                 mutated, items, categories, newItemInputs,
                                 collapsedCategories >>
              \/ /\ \E i \in 1..Len(tasks) :
                        Resumes(i, {"resetShopping"}) /\ tasks[i].ok
                 /\ storeMode' = FALSE
       /\ collapsedCategories' # collapsedCategories =>
              /\ UNCHANGED << dbItems, dbCategories, nextId, tasks, channels,
                              mutated, items, categories, newItemInputs,
                              storeMode >>
              /\ \E category \in Range(visibleCategories) :
                     /\ collapsedCategories' =
                            IF category \in collapsedCategories
                            THEN collapsedCategories \ {category}
                            ELSE collapsedCategories \cup {category}
                     /\ collapsedCategories =
                            IF category \in collapsedCategories'
                            THEN collapsedCategories' \ {category}
                            ELSE collapsedCategories' \cup {category}]_vars

\* a loaded view with items after a collapse toggle and a mode switch and no
\* remote call since the load
C25_Witness ==
    /\ Rendered /\ storeMode /\ collapsedCategories = {Dairy}
    /\ items # << >> /\ tasks = << >> /\ ops = 0 /\ inputs = 2

\* C26: the continuation of a successful add-item for a category empties that
\* category's pending input and leaves every other category's pending input
\* as it is when the continuation runs
C26_AddItemKeepsOtherInputsClaim ==
    [][\A i \in 1..Len(tasks) :
           Resumes(i, {"addItem"}) /\ tasks[i].ok =>
               newItemInputs' =
                   [newItemInputs EXCEPT ![tasks[i].category] = EmptyText]]_vars

====
